---- MODULE Spec2Model ----
(***************************************************************************)
(* Model of the CodementorX chat client transport wrapper                  *)
(* (frontend/src/api/ChatbotClient.js): input validation, the sliding      *)
(* rate window, the request / response interceptors with their retry and   *)
(* backoff loop, and the error taxonomy of chatbotAPI.sendMessage.         *)
(*                                                                         *)
(* Time is the value of Date.now() in milliseconds.  A string is kept as   *)
(* a run-length encoded sequence over the two character classes            *)
(* "whitespace" and "other", which is all that trim() and length observe.  *)
(***************************************************************************)
EXTENDS Integers, Sequences, FiniteSets, TLC

(* ---- program constants ------------------------------------------------ *)
maxRetries == 3
retryDelay == 1000
backoffMultiplier == 2
maxPerMinute == 100
Window == 60000
MaxContentLength == 4000

(* ---- bounds of the model ---------------------------------------------- *)
MaxClock == 120000
MaxCalls == 2

(* the value of a property that was never assigned (undefined) *)
Undefined == -1
(* error.response is absent: no status *)
NoStatus == 0

(* ---- strings ---------------------------------------------------------- *)
Run(ws, n) == [ws |-> ws, n |-> n]
Str(runs) == [isString |-> TRUE, runs |-> runs]
NonString == [isString |-> FALSE, runs |-> <<>>]
(* the inputs of sendMessage: null / a number, "", blanks, text around the *)
(* 4000 character limit, with and without surrounding blanks               *)
Contents ==
  { NonString,
    Str(<<>>),
    Str(<<Run(TRUE, 1)>>),
    Str(<<Run(TRUE, MaxContentLength + 1)>>),
    Str(<<Run(FALSE, MaxContentLength)>>),
    Str(<<Run(FALSE, MaxContentLength + 1)>>),
    Str(<<Run(FALSE, MaxContentLength), Run(TRUE, 1)>>),
    Str(<<Run(TRUE, 1), Run(FALSE, 1), Run(TRUE, 1)>>) }

RECURSIVE StrLen(_)
StrLen(runs) == IF runs = <<>> THEN 0 ELSE Head(runs).n + StrLen(Tail(runs))

RECURSIVE TrimStart(_)
TrimStart(runs) ==
  IF runs = <<>> THEN <<>>
  ELSE IF Head(runs).ws THEN TrimStart(Tail(runs)) ELSE runs

RECURSIVE TrimEnd(_)
TrimEnd(runs) ==
  IF runs = <<>> THEN <<>>
  ELSE IF runs[Len(runs)].ws THEN TrimEnd(SubSeq(runs, 1, Len(runs) - 1)) ELSE runs

Trim(runs) == TrimEnd(TrimStart(runs))

(* ---- errors ----------------------------------------------------------- *)
(* what the network can answer to one attempt.  A 429 answer may carry a   *)
(* retry-after header (a string of digits, <<>> when absent) and a          *)
(* retry_after field in its body (a number, Undefined when absent); a 422   *)
(* answer may carry a detail list in its body                               *)
NoDetail == [has |-> FALSE, list |-> <<>>]
FieldDetail == [has |-> TRUE, list |-> <<"body.content">>]
Answer(status, code, reply) ==
  [status |-> status, code |-> code, reply |-> reply,
   retryAfterHeader |-> <<>>, retryAfterBody |-> Undefined, detail |-> NoDetail]
ErrStatuses == {401, 404, 422, 429, 500, 503}
Outcomes ==
  {Answer(200, "OK", r) : r \in BOOLEAN}
  \cup {Answer(s, "ERR_BAD_RESPONSE", FALSE) : s \in ErrStatuses}
  \cup {[Answer(429, "ERR_BAD_RESPONSE", FALSE) EXCEPT !.retryAfterHeader = h,
                                                       !.retryAfterBody = b] :
          h \in {<<>>, <<3, 0>>}, b \in {Undefined, 0, 45}}
  \cup {[Answer(422, "ERR_BAD_RESPONSE", FALSE) EXCEPT !.detail = FieldDetail]}
  \cup {Answer(NoStatus, k, FALSE) : k \in {"ECONNABORTED", "ERR_NETWORK"}}
NoResponse == Answer(NoStatus, "", FALSE)

(* the details object of a ChatbotError: {} by default *)
NoDetails == [retryAfter |-> Undefined, hasList |-> FALSE, list |-> <<>>]

AxiosError(o) ==
  [cls |-> "AxiosError", status |-> o.status, code |-> o.code, hasConfig |-> TRUE,
   response |-> o, details |-> NoDetails]
ChatbotErrorWith(code, details) ==
  [cls |-> "ChatbotError", status |-> NoStatus, code |-> code, hasConfig |-> FALSE,
   response |-> NoResponse, details |-> details]
ChatbotError(code) == ChatbotErrorWith(code, NoDetails)
RateLimitError ==
  [cls |-> "Error", status |-> NoStatus, code |-> "", hasConfig |-> FALSE,
   response |-> NoResponse, details |-> NoDetails]
TypeError ==
  [cls |-> "TypeError", status |-> NoStatus, code |-> "", hasConfig |-> FALSE,
   response |-> NoResponse, details |-> NoDetails]

(* parseInt of a string of digits *)
RECURSIVE parseInt(_)
parseInt(ds) == IF ds = <<>> THEN 0 ELSE parseInt(SubSeq(ds, 1, Len(ds) - 1)) * 10 + ds[Len(ds)]

RECURSIVE Pow(_, _)
Pow(b, e) == IF e = 0 THEN 1 ELSE b * Pow(b, e - 1)

(* ---- state ------------------------------------------------------------ *)
VARIABLES
  now,          \* Date.now()
  requests,     \* rateLimitTracker.requests
  call,         \* the chatbotAPI.sendMessage call being served
  callsMade,    \* number of chatbotAPI calls made so far
  lastRejectAt, \* when the request interceptor last refused a request
  store,        \* the reducer state of ChatProvider
  sends,        \* the ChatProvider.sendMessage calls awaiting their API call
  timers,       \* the typing timeouts that are armed
  isAuthenticated, \* useAuth().isAuthenticated
  sendsStarted, \* number of send-start dispatches so far
  selectedIntent, \* ChatBox selectedIntent, the value of the intent selector
  thrown,       \* the message of the Error ChatProvider.sendMessage last rejected with
  wire          \* the HTTP requests the store's operations have sent

storeVars == <<store, sends, timers, isAuthenticated, sendsStarted, selectedIntent,
              thrown>>
vars == <<now, requests, call, callsMade, lastRejectAt, store, sends, timers,
          isAuthenticated, sendsStarted, selectedIntent, thrown, wire>>

(* faulty variant: a timestamp exactly one minute old is kept *)
PruneInclusive(reqs, t) == SelectSeq(reqs, LAMBDA ts : ts >= t - Window)
(* faulty variant: one request too many is admitted *)
canMakeRequestOffByOne(reqs, t) ==
  Len(SelectSeq(reqs, LAMBDA ts : ts > t - Window)) <= maxPerMinute

(* rateLimitTracker.canMakeRequest: the pruned window and the verdict *)
Prune(reqs, t) == SelectSeq(reqs, LAMBDA ts : ts > t - Window)
canMakeRequest(reqs, t) == Len(Prune(reqs, t)) < maxPerMinute

(* a request sent through chatbotClient: the request interceptor sets its *)
(* X-Request-ID header; a request sent through a bare axios instance has *)
(* the headers of that instance only                                     *)
clientRequest(method, url) == [method |-> method, url |-> url, requestId |-> TRUE]
bareRequest(method, url) == [method |-> method, url |-> url, requestId |-> FALSE]

(* faulty variant: an admitted request is not recorded *)
requestInterceptorNoRecord(reqs, t) ==
  IF canMakeRequest(reqs, t)
  THEN [ok |-> TRUE, requests |-> Prune(reqs, t)]
  ELSE [ok |-> FALSE, requests |-> Prune(reqs, t)]
(* faulty variant: a refused request is recorded all the same *)
requestInterceptorRecordsRefused(reqs, t) ==
  IF canMakeRequest(reqs, t)
  THEN [ok |-> TRUE, requests |-> Append(Prune(reqs, t), t)]
  ELSE [ok |-> FALSE, requests |-> Append(Prune(reqs, t), t)]

(* the request interceptor at time t: no error and the request recorded, *)
(* or the rate limit Error thrown with the window pruned only            *)
requestInterceptor(reqs, t) ==
  IF canMakeRequest(reqs, t)
  THEN [ok |-> TRUE, requests |-> Append(Prune(reqs, t), t)]
  ELSE [ok |-> FALSE, requests |-> Prune(reqs, t)]

(* faulty variant: the retry budget compared with <= *)
LessOrEqual(rc, n) == rc # Undefined /\ rc <= n
(* faulty variant: every failing status from 400 up is retried *)
shouldRetryAnyStatus(error) ==
  error.status = NoStatus \/ error.code = "ECONNABORTED" \/ error.status >= 400
(* faulty variant: the exponent is the retry count itself *)
backoffDelayNoOffset(rc) == retryDelay * Pow(backoffMultiplier, rc)
(* faulty variant: the delay grows linearly *)
backoffDelayLinear(rc) == retryDelay * rc

IsFalsy(rc) == rc = Undefined \/ rc = 0
(* rc < n in JavaScript: undefined < n is false *)
Less(rc, n) == rc # Undefined /\ rc < n

shouldRetry(error) ==
  IF error.status >= 400 /\ error.status < 500 /\ error.status # 429
  THEN FALSE
  ELSE error.status = NoStatus
       \/ error.code = "ECONNABORTED"
       \/ error.status >= 500

Throw(error, rc) == [act |-> "throw", error |-> error, retryCount |-> rc, delay |-> 0]
Retry(error, rc, delay) == [act |-> "retry", error |-> error, retryCount |-> rc, delay |-> delay]

backoffDelay(rc) == retryDelay * Pow(backoffMultiplier, rc - 1)

(* faulty variant: the retry-after header is not looked at *)
interceptorRetryAfterBodyOnly(o) ==
  IF o.retryAfterBody # Undefined /\ o.retryAfterBody # 0 THEN o.retryAfterBody
  ELSE 60

(* parseInt(headers['retry-after'] || data?.retry_after || 60) *)
interceptorRetryAfter(o) ==
  IF o.retryAfterHeader # <<>> THEN parseInt(o.retryAfterHeader)
  ELSE IF o.retryAfterBody # Undefined /\ o.retryAfterBody # 0 THEN o.retryAfterBody
  ELSE 60

(* the response interceptor's error handler, up to its await: rc is *)
(* error.config._retryCount                                          *)
responseErrorHandler(error, rc) ==
  IF error.status = 401 THEN Throw(error, rc)
  ELSE IF error.status = 429
  THEN Throw(ChatbotErrorWith("RATE_LIMITED",
               [NoDetails EXCEPT !.retryAfter = interceptorRetryAfter(error.response)]), rc)
  ELSE IF error.status = 422
  THEN Throw(ChatbotErrorWith("VALIDATION_ERROR",
               [NoDetails EXCEPT !.hasList = TRUE, !.list = error.response.detail.list]), rc)
  ELSE IF shouldRetry(error) /\ ~error.hasConfig THEN Throw(TypeError, rc)
  ELSE LET rc0 == IF shouldRetry(error) /\ IsFalsy(rc) THEN 0 ELSE rc
       IN IF shouldRetry(error) /\ Less(rc0, maxRetries)
          THEN Retry(error, rc0 + 1, backoffDelay(rc0 + 1))
          ELSE Throw(error, rc0)

(* faulty variant: the catch block without its 401 branch *)
classifyWithout401(error) ==
  IF error.cls = "ChatbotError" THEN error.code
  ELSE IF error.status = 422 THEN "VALIDATION_ERROR"
  ELSE IF error.status = 429 THEN "RATE_LIMITED"
  ELSE IF error.status >= 500 THEN "SERVICE_ERROR"
  ELSE IF error.code = "ECONNABORTED" THEN "TIMEOUT"
  ELSE IF error.status = NoStatus THEN "NETWORK_ERROR"
  ELSE "UNKNOWN_ERROR"
(* faulty variant: a 5xx answer is not told apart from an unknown failure *)
classifyWithout5xx(error) ==
  IF error.cls = "ChatbotError" THEN error.code
  ELSE IF error.status = 401 THEN "UNAUTHORIZED"
  ELSE IF error.status = 422 THEN "VALIDATION_ERROR"
  ELSE IF error.status = 429 THEN "RATE_LIMITED"
  ELSE IF error.code = "ECONNABORTED" THEN "TIMEOUT"
  ELSE IF error.status = NoStatus THEN "NETWORK_ERROR"
  ELSE "UNKNOWN_ERROR"

(* the catch block of chatbotAPI.sendMessage: the code of the error raised *)
classify(error) ==
  IF error.cls = "ChatbotError" THEN error.code
  ELSE IF error.status = 401 THEN "UNAUTHORIZED"
  ELSE IF error.status = 422 THEN "VALIDATION_ERROR"
  ELSE IF error.status = 429 THEN "RATE_LIMITED"
  ELSE IF error.status >= 500 THEN "SERVICE_ERROR"
  ELSE IF error.code = "ECONNABORTED" THEN "TIMEOUT"
  ELSE IF error.status = NoStatus THEN "NETWORK_ERROR"
  ELSE "UNKNOWN_ERROR"

(* faulty variant: the length limit applied to the trimmed text *)
validateTrimmedLength(content) ==
  IF ~content.isString \/ StrLen(content.runs) = 0 \/ StrLen(Trim(content.runs)) = 0
  THEN "INVALID_INPUT"
  ELSE IF StrLen(Trim(content.runs)) > MaxContentLength THEN "MESSAGE_TOO_LONG"
  ELSE ""

(* the catch block of chatbotAPI.sendMessage: the details of the error raised *)
catchDetails(error) ==
  IF error.cls = "ChatbotError" THEN error.details
  ELSE IF error.status = 422
  THEN [NoDetails EXCEPT !.hasList = error.response.detail.has,
                         !.list = error.response.detail.list]
  ELSE IF error.status = 429
  THEN [NoDetails EXCEPT !.retryAfter =
          IF error.response.retryAfterBody # Undefined /\ error.response.retryAfterBody # 0
          THEN error.response.retryAfterBody ELSE 60]
  ELSE NoDetails

(* faulty variant: blank text is not told apart from text *)
validateUntrimmed(content) ==
  IF ~content.isString \/ StrLen(content.runs) = 0
  THEN "INVALID_INPUT"
  ELSE IF StrLen(content.runs) > MaxContentLength THEN "MESSAGE_TOO_LONG"
  ELSE ""

(* the input validation of chatbotAPI.sendMessage: "" when the input passes *)
validate(content) ==
  IF ~content.isString \/ StrLen(content.runs) = 0 \/ StrLen(Trim(content.runs)) = 0
  THEN "INVALID_INPUT"
  ELSE IF StrLen(content.runs) > MaxContentLength THEN "MESSAGE_TOO_LONG"
  ELSE ""

(* ======================================================================= *)
(* The chat store (ChatContext.jsx)                                        *)
(* ======================================================================= *)
(* null for a field that holds a string; the absent lastError *)
Null == "null"
NoLastError == [type |-> Null, message |-> Null, details |-> NoDetails]

(* ---- ChatProvider.sendMessage: the checks before anything is dispatched -- *)
(* faulty variant: only the authentication is checked *)
sendMessagePreconditionsAuthOnly(authenticated, content) ==
  IF ~authenticated THEN "Authentication required" ELSE ""
(* the message of the Error thrown, "" when the call goes ahead; content is *)
(* null or a string                                                         *)
sendMessagePreconditions(authenticated, content) ==
  IF ~authenticated THEN "Authentication required"
  ELSE IF ~content.isString \/ StrLen(Trim(content.runs)) = 0 THEN "Message cannot be empty"
  ELSE ""

(* ---- intents ----------------------------------------------------------- *)
CHAT_INTENTS == [GENERAL |-> "general", CODING |-> "coding", TRANSLATION |-> "translation"]
(* CHAT_INTENTS.KEY: a key the object lacks reads undefined *)
NoValue == "undefined"
intentOf(key) == IF key \in DOMAIN CHAT_INTENTS THEN CHAT_INTENTS[key] ELSE NoValue

(* the keys of intentMapping: an emoji, written here by its code point, *)
(* and a name                                                           *)
intentMapping ==
  [label \in {"<1F4BB> Coding Help", "<1F310> Translation", "<1F4AC> General Chat"} |->
     IF label = "<1F4BB> Coding Help" THEN CHAT_INTENTS.CODING
     ELSE IF label = "<1F310> Translation" THEN CHAT_INTENTS.TRANSLATION
     ELSE CHAT_INTENTS.GENERAL]

(* the options of IntentSelector: the value each one is given and its text, *)
(* the characters before the name written by their code points              *)
IntentOptions ==
  {[value |-> intentOf("GENERAL"), label |-> "<F8FF FC ED A8> General Chat"],
   [value |-> intentOf("CODING_HELP"), label |-> "<F8FF FC ED AA> Coding Help"],
   [value |-> intentOf("QUESTION_ANSWER"), label |-> "<201A F9 EC> Q&A"],
   [value |-> intentOf("TRANSLATION"), label |-> "<F8FF FC E5 EA> Translation"]}
(* e.target.value of the option chosen: an option given no value has its *)
(* text as value                                                          *)
optionValue(option) == IF option.value = NoValue THEN option.label ELSE option.value

(* intentMapping[intent] || intent || CHAT_INTENTS.GENERAL *)
normalizedIntent(intent) ==
  IF intent \in DOMAIN intentMapping THEN intentMapping[intent]
  ELSE IF intent \notin {NoValue, ""} THEN intent
  ELSE CHAT_INTENTS.GENERAL
(* the intent field of the POST /chat/ payload: set when the intent is truthy *)
payloadIntent(intent) == IF intent \notin {NoValue, ""} THEN intent ELSE NoValue

(* message ids: temp_<n> from generateTempId, msg_<n> from generateMessageId; *)
(* the n-th send of the session draws the suffix n                           *)
NoId == [kind |-> "none", n |-> 0]
generateTempId(n) == [kind |-> "temp", n |-> n]
generateMessageId(n) == [kind |-> "msg", n |-> n]
(* response.data.messageId || generateMessageId() *)
assistantId(n) == [kind |-> "reply", n |-> n]

(* the ids the server assigns to conversations *)
ConvIds == {"c1", "c2"}

TypingDelay == 500

(* what the user can type into the textarea (maxLength 4000): nothing, a *)
(* short text between blanks, blanks only                               *)
InputValues ==
  { Str(<<>>),
    Str(<<Run(TRUE, 1), Run(FALSE, 2), Run(TRUE, 1)>>),
    Str(<<Run(TRUE, 2)>>) }

(* getRateLimitInfo().remaining *)
Max(a, b) == IF a >= b THEN a ELSE b
getRateLimitInfo(reqs) == [remaining |-> Max(0, maxPerMinute - Len(reqs))]

initialState ==
  [activeConversation |-> Null,
   messages |-> <<>>,
   conversations |-> <<>>,
   inputValue |-> Str(<<>>),
   isTyping |-> FALSE,
   isSending |-> FALSE,
   serviceStatus |-> "unknown",
   rateLimitInfo |-> [remaining |-> maxPerMinute],
   error |-> Null,
   lastError |-> NoLastError]

(* ---- chatReducer, one operator per action type ------------------------- *)
(* faulty variant: the error of the previous send is kept *)
SEND_MESSAGE_START_KeepsError(state, payload) ==
  [state EXCEPT !.isSending = TRUE,
                !.messages = Append(@, [id |-> payload.tempId, tempId |-> NoId,
                                        type |-> "user", content |-> payload.content,
                                        isTemporary |-> TRUE])]

SEND_MESSAGE_START(state, payload) ==
  [state EXCEPT !.isSending = TRUE,
                !.error = Null,
                !.messages = Append(@, [id |-> payload.tempId, tempId |-> NoId,
                                        type |-> "user", content |-> payload.content,
                                        isTemporary |-> TRUE])]

(* faulty variant: isSending is left as it is *)
SEND_MESSAGE_SUCCESS_KeepsSending(state, payload) ==
  [state EXCEPT !.isTyping = FALSE,
                !.inputValue = Str(<<>>),
                !.activeConversation = payload.conversationId,
                !.messages =
                   SelectSeq(@, LAMBDA msg : msg.id # payload.userMessage.tempId)
                   \o <<[payload.userMessage EXCEPT !.isTemporary = FALSE],
                        payload.assistantMessage>>]

(* faulty variant: the optimistic message is not filtered out *)
SEND_MESSAGE_SUCCESS_KeepsTemp(state, payload) ==
  [state EXCEPT !.isSending = FALSE,
                !.isTyping = FALSE,
                !.inputValue = Str(<<>>),
                !.activeConversation = payload.conversationId,
                !.messages = @ \o <<[payload.userMessage EXCEPT !.isTemporary = FALSE],
                                    payload.assistantMessage>>]

SEND_MESSAGE_SUCCESS(state, payload) ==
  [state EXCEPT !.isSending = FALSE,
                !.isTyping = FALSE,
                !.inputValue = Str(<<>>),
                !.activeConversation = payload.conversationId,
                !.messages =
                   SelectSeq(@, LAMBDA msg : msg.id # payload.userMessage.tempId)
                   \o <<[payload.userMessage EXCEPT !.isTemporary = FALSE],
                        payload.assistantMessage>>]

(* faulty variant: the input is cleared as on success *)
SEND_MESSAGE_FAILURE_ClearsInput(state, payload) ==
  [state EXCEPT !.isSending = FALSE,
                !.isTyping = FALSE,
                !.inputValue = Str(<<>>),
                !.error = payload.error,
                !.lastError = [type |-> payload.type, message |-> payload.error,
                               details |-> payload.details],
                !.messages = SelectSeq(@, LAMBDA msg : ~msg.isTemporary)]

(* faulty variant: isSending is left as it is *)
SEND_MESSAGE_FAILURE_KeepsSending(state, payload) ==
  [state EXCEPT !.isTyping = FALSE,
                !.error = payload.error,
                !.lastError = [type |-> payload.type, message |-> payload.error,
                               details |-> payload.details],
                !.messages = SelectSeq(@, LAMBDA msg : ~msg.isTemporary)]

(* faulty variant: the message list is left as it is *)
SEND_MESSAGE_FAILURE_KeepsTemp(state, payload) ==
  [state EXCEPT !.isSending = FALSE,
                !.isTyping = FALSE,
                !.error = payload.error,
                !.lastError = [type |-> payload.type, message |-> payload.error,
                               details |-> payload.details]]

SEND_MESSAGE_FAILURE(state, payload) ==
  [state EXCEPT !.isSending = FALSE,
                !.isTyping = FALSE,
                !.error = payload.error,
                !.lastError = [type |-> payload.type, message |-> payload.error,
                               details |-> payload.details],
                !.messages = SelectSeq(@, LAMBDA msg : ~msg.isTemporary)]

(* faulty variant: the messages of the previous conversation stay *)
SET_ACTIVE_CONVERSATION_KeepsMessages(state, payload) ==
  [state EXCEPT !.activeConversation = payload.conversationId]

SET_ACTIVE_CONVERSATION(state, payload) ==
  [state EXCEPT !.activeConversation = payload.conversationId,
                !.messages = payload.messages]

LOAD_CONVERSATIONS(state, payload) == [state EXCEPT !.conversations = payload]

(* faulty variant: the active pointer survives the deletion *)
DELETE_CONVERSATION_KeepsActive(state, payload) ==
  [state EXCEPT !.conversations = SelectSeq(@, LAMBDA conv : conv.id # payload)]

DELETE_CONVERSATION(state, payload) ==
  LET s == [state EXCEPT !.conversations = SelectSeq(@, LAMBDA conv : conv.id # payload)]
  IN IF state.activeConversation = payload
     THEN [s EXCEPT !.activeConversation = Null, !.messages = <<>>]
     ELSE s

SET_INPUT_VALUE(state, payload) == [state EXCEPT !.inputValue = payload]
SET_TYPING_INDICATOR(state, payload) == [state EXCEPT !.isTyping = payload]
CLEAR_ERRORS(state) == [state EXCEPT !.error = Null, !.lastError = NoLastError]
SET_SERVICE_STATUS(state, payload) == [state EXCEPT !.serviceStatus = payload.status]
UPDATE_RATE_LIMIT(state, payload) == [state EXCEPT !.rateLimitInfo = payload]

(* ---- ChatProvider ------------------------------------------------------ *)
(* faulty variant: a send in flight does not disable the send control *)
canSendMessageWhileSending(state, authenticated) ==
  LET trimmedInput == Trim(state.inputValue.runs)
  IN /\ authenticated
     /\ StrLen(trimmedInput) > 0
     /\ StrLen(trimmedInput) <= MaxContentLength
     /\ state.rateLimitInfo.remaining > 0
     /\ state.serviceStatus # "down"

canSendMessage(state, authenticated) ==
  LET trimmedInput == Trim(state.inputValue.runs)
  IN /\ authenticated
     /\ ~state.isSending
     /\ StrLen(trimmedInput) > 0
     /\ StrLen(trimmedInput) <= MaxContentLength
     /\ state.rateLimitInfo.remaining > 0
     /\ state.serviceStatus # "down"

(* getConversationSummary().hasErrors *)
hasErrors(state) == \E j \in DOMAIN state.messages : state.messages[j].type = "error"

isRateLimited(state) == state.rateLimitInfo.remaining <= 0

(* text as the characters it is made of: a blank or a letter per position *)
RECURSIVE Chars(_)
Chars(runs) ==
  IF runs = <<>> THEN <<>>
  ELSE [i \in 1..Head(runs).n |-> IF Head(runs).ws THEN " " ELSE "x"] \o Chars(Tail(runs))
(* String.prototype.slice(0, n) *)
RECURSIVE slice(_, _)
slice(runs, n) ==
  IF runs = <<>> \/ n = 0 THEN <<>>
  ELSE IF Head(runs).n <= n THEN <<Head(runs)>> \o slice(Tail(runs), n - Head(runs).n)
  ELSE <<Run(Head(runs).ws, n)>>
TitleLength == 50
(* content.slice(0, 50) + (content.length > 50 ? '...' : '') *)
title(content) ==
  Chars(slice(content.runs, TitleLength))
    \o (IF StrLen(content.runs) > TitleLength THEN <<".", ".", ".">> ELSE <<>>)

(* the entry sendMessage builds at time t for a conversation the server has *)
(* just created                                                             *)
newConversation(id, content, t) ==
  [id |-> id, title |-> title(content), status |-> "active", updated_at |-> t,
   message_count |-> 2]
(* faulty variant: the new entry goes to the end of the list *)
withNewConversationLast(entry, conversations) == Append(conversations, entry)
(* [newConversation, ...state.conversations] *)
withNewConversation(entry, conversations) == <<entry>> \o conversations

(* the errors chatbotAPI.sendMessage can end with once the transport has    *)
(* given up: every failing answer as the response interceptor and the catch *)
(* block classify it with the retry budget spent, and the missing reply     *)
ApiFailures ==
  {[code |-> classify(h.error), details |-> catchDetails(h.error)] :
     h \in {responseErrorHandler(AxiosError(o), maxRetries) :
              o \in {x \in Outcomes : x.status # 200}}}
  \cup {[code |-> classify(ChatbotError("INVALID_RESPONSE")), details |-> NoDetails]}
(* the error of a call whose first attempt the local rate check refused *)
ApiRefused ==
  LET h == responseErrorHandler(RateLimitError, Undefined)
  IN [code |-> classify(h.error), details |-> catchDetails(h.error)]

(* error.message of the ChatbotError for the codes the store does not reword *)
thrownMessage(failure) ==
  IF failure.code = "VALIDATION_ERROR"
  THEN IF failure.details.list # <<>> THEN "Validation failed: " \o failure.details.list[1]
       ELSE "Invalid request data"
  ELSE IF failure.code = "INVALID_RESPONSE" THEN "Invalid response from chatbot service"
  ELSE "An unexpected error occurred"

(* the catch block of ChatProvider.sendMessage: the message put in the store *)
errorMessage(failure) ==
  CASE failure.code = "RATE_LIMITED" ->
         "You are sending messages too quickly. Please wait "
           \o ToString(IF failure.details.retryAfter \in {Undefined, 0} THEN 60
                       ELSE failure.details.retryAfter)
           \o " seconds."
    [] failure.code = "UNAUTHORIZED" -> "Your session has expired. Please log in again."
    [] failure.code = "NETWORK_ERROR" ->
         "Unable to connect to the chat service. Please check your internet connection."
    [] failure.code = "TIMEOUT" -> "The request timed out. Please try again."
    [] failure.code = "SERVICE_ERROR" ->
         "The chat service is temporarily unavailable. Please try again in a moment."
    [] failure.code = "MESSAGE_TOO_LONG" ->
         "Your message is too long. Please limit to 4000 characters."
    [] failure.code = "INVALID_INPUT" -> "Please enter a valid message."
    [] OTHER -> thrownMessage(failure)

(* ---- the sendMessage call --------------------------------------------- *)
(* attempts, delays and responses record what the call did: the network  *)
(* attempts made, the backoff delays waited and the answers received      *)
NewCall(content) ==
  [pc |-> "idle", content |-> content, retryCount |-> Undefined, wakeAt |-> 0,
   attempts |-> 0, delays |-> <<>>, responses |-> <<>>, result |-> "none",
   details |-> NoDetails]

PreFills == {0, maxPerMinute - 2, maxPerMinute}
TimeSteps == {Window}

(* the client at time 0; the window holds the timestamps of the requests *)
(* recorded so far: none, or a burst that nearly or wholly fills it       *)
Init ==
  /\ now = 0
  /\ \E n \in PreFills : requests = [i \in 1..n |-> 0]
  /\ call = NewCall(NonString)
  /\ callsMade = 0
  /\ lastRejectAt = Undefined
  /\ store = initialState
  /\ sends = <<>>
  /\ timers = {}
  /\ isAuthenticated = TRUE
  /\ sendsStarted = 0
  /\ selectedIntent = CHAT_INTENTS.GENERAL
  /\ thrown = ""
  /\ wire = {}

(* what becomes of call c when the response interceptor's error handler *)
(* ended as h: the error reaches the catch block of sendMessage, or the *)
(* handler sleeps before it issues the request again                    *)
Settle(c, h) ==
  IF h.act = "retry"
  THEN [c EXCEPT !.pc = "delay", !.retryCount = h.retryCount,
                 !.wakeAt = now + h.delay, !.delays = Append(@, h.delay)]
  ELSE [c EXCEPT !.pc = "done", !.retryCount = h.retryCount,
                 !.result = classify(h.error), !.details = catchDetails(h.error)]

(* chatbotClient(config): the request interceptor runs; the request goes *)
(* out, or the interceptor's Error passes through the error handler      *)
Issue(c) ==
  LET r == requestInterceptor(requests, now)
  IN /\ requests' = r.requests
     /\ IF r.ok
        THEN /\ call' = [c EXCEPT !.pc = "inflight", !.attempts = @ + 1]
             /\ UNCHANGED lastRejectAt
        ELSE /\ call' = Settle(c, responseErrorHandler(RateLimitError, Undefined))
             /\ lastRejectAt' = now

SendMessage(content) ==
  /\ call.pc \in {"idle", "done"}
  /\ callsMade < MaxCalls
  /\ callsMade' = callsMade + 1
  /\ UNCHANGED <<now, wire, storeVars>>
  /\ IF validate(content) # ""
     THEN /\ call' = [NewCall(content) EXCEPT !.pc = "done", !.result = validate(content)]
          /\ UNCHANGED <<requests, lastRejectAt>>
     ELSE Issue(NewCall(content))

(* the answer to the attempt in flight: a 2xx answer, an error status, *)
(* a timeout or no answer at all                                        *)
Respond(o) ==
  /\ call.pc = "inflight"
  /\ LET c == [call EXCEPT !.responses = Append(@, o)]
     IN call' = IF o.status = 200
                THEN [c EXCEPT !.pc = "done",
                               !.result = IF o.reply THEN "OK"
                                          ELSE classify(ChatbotError("INVALID_RESPONSE"))]
                ELSE Settle(c, responseErrorHandler(AxiosError(o), call.retryCount))
  /\ UNCHANGED <<now, requests, callsMade, lastRejectAt, wire, storeVars>>

(* the backoff timer fires and the handler issues the request again *)
RetryFire ==
  /\ call.pc = "delay"
  /\ now >= call.wakeAt
  /\ Issue(call)
  /\ UNCHANGED <<now, callsMade, wire, storeVars>>

Advance(d) ==
  /\ now + d <= MaxClock
  /\ now' = now + d
  /\ UNCHANGED <<requests, call, callsMade, lastRejectAt, wire, storeVars>>

(* time passes until the pending backoff timer is due *)
AdvanceToTimer ==
  /\ call.pc = "delay"
  /\ now < call.wakeAt
  /\ now' = call.wakeAt
  /\ UNCHANGED <<requests, call, callsMade, lastRejectAt, wire, storeVars>>

Next ==
  \/ \E content \in Contents : SendMessage(content)
  \/ \E o \in Outcomes : Respond(o)
  \/ RetryFire
  \/ \E d \in TimeSteps : Advance(d)
  \/ AdvanceToTimer

Spec == Init /\ [][Next]_vars

(* ======================================================================= *)
(* The chat store as a state machine.  chatbotAPI.sendMessage is taken as  *)
(* one call here: its validation and the rate check of its first attempt   *)
(* happen when the send starts, and its result arrives in one later step,  *)
(* drawn from the results the transport above can end with.                *)
(* ======================================================================= *)
MaxSends == 2

RemoveAt(seq, i) == SubSeq(seq, 1, i - 1) \o SubSeq(seq, i + 1, Len(seq))

(* the provider once mounted: the mount effect has published the rate limit *)
(* snapshot; the window is empty or holds a burst that fills it             *)
InitStore ==
  /\ now = 0
  /\ \E n \in {0, maxPerMinute} : requests = [i \in 1..n |-> 0]
  /\ call = NewCall(NonString)
  /\ callsMade = 0
  /\ lastRejectAt = Undefined
  /\ store = UPDATE_RATE_LIMIT(initialState, getRateLimitInfo(requests))
  /\ sends = <<>>
  /\ timers = {}
  /\ isAuthenticated = TRUE
  /\ sendsStarted = 0
  /\ selectedIntent = CHAT_INTENTS.GENERAL
  /\ thrown = ""
  /\ wire = {}

(* ChatProvider.sendMessage up to its await, called on store state base: *)
(* send-start is dispatched, the typing timer is armed and the API call  *)
(* validates the content and passes the request interceptor              *)
sendMessage(base, content, via) ==
  LET n == sendsStarted + 1
      trimmed == Str(Trim(content.runs))
      r == requestInterceptor(requests, now)
      early == IF validate(trimmed) # "" THEN validate(trimmed)
               ELSE IF ~r.ok THEN "REFUSED" ELSE ""
  IN /\ sendMessagePreconditions(isAuthenticated, content) = ""
     /\ store' = SEND_MESSAGE_START(base, [tempId |-> generateTempId(n),
                                           content |-> trimmed])
     /\ sends' = Append(sends, [n |-> n, tempId |-> generateTempId(n),
                                content |-> trimmed,
                                activeConversation |-> store.activeConversation,
                                conversations |-> store.conversations,
                                startedAt |-> now, early |-> early, via |-> via,
                                intent |-> payloadIntent(normalizedIntent(selectedIntent))])
     /\ timers' = timers \cup {[n |-> n, fireAt |-> now + TypingDelay]}
     /\ requests' = IF validate(trimmed) = "" THEN r.requests ELSE requests
     /\ wire' = IF early = "" THEN wire \cup {clientRequest("POST", "/chat/")} ELSE wire
     /\ sendsStarted' = n
     /\ UNCHANGED <<now, selectedIntent, thrown, call, callsMade, lastRejectAt, isAuthenticated>>

(* ChatBox.handleSubmit: the submit control is enabled and the form is sent *)
handleSubmit ==
  /\ sendsStarted < MaxSends
  /\ canSendMessage(store, isAuthenticated)
  /\ Trim(store.inputValue.runs) # <<>>
  /\ sendMessage(CLEAR_ERRORS(store), Str(Trim(store.inputValue.runs)), "submit")

(* ChatBox.handleRetry: the retry control is shown with the error and enabled *)
handleRetry ==
  /\ sendsStarted < MaxSends
  /\ store.error # Null
  /\ canSendMessage(store, isAuthenticated)
  /\ Trim(store.inputValue.runs) # <<>>
  /\ sendMessage(store, Str(Trim(store.inputValue.runs)), "retry")

(* the API call of send i answers with a reply in conversation id *)
SendSuccess(i, id) ==
  LET s == sends[i]
      userMessage == [id |-> generateMessageId(s.n), tempId |-> s.tempId,
                      type |-> "user", content |-> s.content, isTemporary |-> FALSE]
      assistantMessage == [id |-> assistantId(s.n), tempId |-> NoId,
                           type |-> "assistant", content |-> Str(<<Run(FALSE, 5)>>),
                           isTemporary |-> FALSE]
      done == SEND_MESSAGE_SUCCESS(store, [userMessage |-> userMessage,
                                           assistantMessage |-> assistantMessage,
                                           conversationId |-> id])
  IN /\ s.early = ""
     /\ timers' = {t \in timers : t.n # s.n}
     /\ store' = IF s.activeConversation = Null
                 THEN LOAD_CONVERSATIONS(done,
                        withNewConversation(newConversation(id, s.content, now),
                                            s.conversations))
                 ELSE done
     /\ sends' = RemoveAt(sends, i)
     /\ UNCHANGED <<now, selectedIntent, thrown, requests, call, callsMade, lastRejectAt, wire, isAuthenticated,
                    sendsStarted>>

(* the API call of send i throws failure f *)
SendFailure(i, f) ==
  LET s == sends[i]
  IN /\ f = IF s.early = "REFUSED" THEN ApiRefused
            ELSE IF s.early # "" THEN [code |-> s.early, details |-> NoDetails]
            ELSE f
     /\ store' = SEND_MESSAGE_FAILURE(store, [type |-> f.code, error |-> errorMessage(f),
                                              details |-> f.details])
     /\ sends' = RemoveAt(sends, i)
     /\ UNCHANGED <<now, selectedIntent, thrown, requests, call, callsMade, lastRejectAt, wire, isAuthenticated,
                    sendsStarted, timers>>

(* a typing timeout that was not cleared fires *)
TypingTimeout ==
  \E t \in timers :
    /\ now >= t.fireAt
    /\ store' = SET_TYPING_INDICATOR(store, TRUE)
    /\ timers' = timers \ {t}
    /\ UNCHANGED <<now, selectedIntent, thrown, requests, call, callsMade, lastRejectAt, wire, isAuthenticated,
                   sendsStarted, sends>>

(* time passes until the next typing timeout is due *)
AdvanceToTypingTimeout ==
  \E t \in timers :
    /\ \A u \in timers : t.fireAt <= u.fireAt
    /\ now < t.fireAt
    /\ now' = t.fireAt
    /\ UNCHANGED <<requests, call, callsMade, lastRejectAt, wire, storeVars>>

(* ChatBox.handleInputChange; the textarea is disabled while sending or *)
(* rate limited                                                         *)
handleInputChange(value) ==
  /\ ~store.isSending
  /\ ~isRateLimited(store)
  /\ value # store.inputValue
  /\ store' = SET_INPUT_VALUE(store, value)
  /\ UNCHANGED <<now, selectedIntent, thrown, requests, call, callsMade, lastRejectAt, wire, isAuthenticated,
                 sendsStarted, sends, timers>>

ConversationIds(state) == {state.conversations[i].id : i \in DOMAIN state.conversations}

switchConversation(conversationId) ==
  /\ conversationId \in ConversationIds(store)
  /\ store' = CLEAR_ERRORS(SET_ACTIVE_CONVERSATION(store,
                 [conversationId |-> conversationId, messages |-> <<>>]))
  /\ UNCHANGED <<now, selectedIntent, thrown, requests, call, callsMade, lastRejectAt, wire, isAuthenticated,
                 sendsStarted, sends, timers>>

createNewConversation ==
  /\ store' = CLEAR_ERRORS(SET_INPUT_VALUE(SET_ACTIVE_CONVERSATION(store,
                 [conversationId |-> Null, messages |-> <<>>]), Str(<<>>)))
  /\ UNCHANGED <<now, selectedIntent, thrown, requests, call, callsMade, lastRejectAt, wire, isAuthenticated,
                 sendsStarted, sends, timers>>

deleteConversation(conversationId) ==
  /\ conversationId \in ConversationIds(store)
  /\ store' = DELETE_CONVERSATION(store, conversationId)
  /\ UNCHANGED <<now, selectedIntent, thrown, requests, call, callsMade, lastRejectAt, wire, isAuthenticated,
                 sendsStarted, sends, timers>>

(* the Dismiss control of the error banner *)
clearErrors ==
  /\ store.error # Null
  /\ store' = CLEAR_ERRORS(store)
  /\ UNCHANGED <<now, selectedIntent, thrown, requests, call, callsMade, lastRejectAt, wire, isAuthenticated,
                 sendsStarted, sends, timers>>

(* chatbotAPI.getStatus answered by o: the try block returns success for a *)
(* 2xx answer and the catch block returns success false for anything else; *)
(* nothing is thrown to the caller                                          *)
getStatus(o) ==
  IF o.status = 200 THEN [threw |-> FALSE, success |-> TRUE]
  ELSE [threw |-> FALSE, success |-> FALSE]

(* the status poll, its request answered by o *)
checkServiceStatus(o) ==
  LET result == getStatus(o)
  IN /\ isAuthenticated
     /\ wire' = wire \cup {bareRequest("GET", "/chat/status")}
     /\ store' = SET_SERVICE_STATUS(store,
                    [status |-> IF result.threw THEN "down"
                                ELSE IF result.success THEN "healthy" ELSE "degraded"])
     /\ UNCHANGED <<now, selectedIntent, thrown, requests, call, callsMade, lastRejectAt, isAuthenticated,
                    sendsStarted, sends, timers>>

(* the periodic refresh of the rate limit snapshot *)
updateRateLimit ==
  /\ store' = UPDATE_RATE_LIMIT(store, getRateLimitInfo(requests))
  /\ UNCHANGED <<now, selectedIntent, thrown, requests, call, callsMade, lastRejectAt, wire, isAuthenticated,
                 sendsStarted, sends, timers>>

(* the user logs out and the reset effect runs *)
Logout ==
  /\ isAuthenticated
  /\ isAuthenticated' = FALSE
  /\ store' = CLEAR_ERRORS(LOAD_CONVERSATIONS(SET_ACTIVE_CONVERSATION(store,
                 [conversationId |-> Null, messages |-> <<>>]), <<>>))
  /\ UNCHANGED <<now, selectedIntent, thrown, requests, call, callsMade, lastRejectAt, wire,
                 sendsStarted, sends, timers>>

Login ==
  /\ ~isAuthenticated
  /\ isAuthenticated' = TRUE
  /\ UNCHANGED <<now, selectedIntent, thrown, requests, call, callsMade, lastRejectAt, wire, store,
                 sendsStarted, sends, timers>>

NextStore ==
  \/ handleSubmit
  \/ handleRetry
  \/ \E i \in DOMAIN sends : \E id \in ConvIds : SendSuccess(i, id)
  \/ \E i \in DOMAIN sends : \E f \in ApiFailures \cup {ApiRefused} : SendFailure(i, f)
  \/ TypingTimeout
  \/ AdvanceToTypingTimeout
  \/ \E value \in InputValues : handleInputChange(value)
  \/ \E id \in ConvIds : switchConversation(id)
  \/ createNewConversation
  \/ \E id \in ConvIds : deleteConversation(id)
  \/ clearErrors
  \/ \E o \in Outcomes : checkServiceStatus(o)
  \/ updateRateLimit
  \/ Logout
  \/ Login

SpecStore == InitStore /\ [][NextStore]_vars

(* ======================================================================= *)
(* The store with the intent selector of the chat box                      *)
(* ======================================================================= *)
(* the user picks an option; the selector is disabled while sending *)
selectIntent(option) ==
  /\ ~store.isSending
  /\ selectedIntent' = optionValue(option)
  /\ selectedIntent' # selectedIntent
  /\ UNCHANGED <<now, thrown, requests, call, callsMade, lastRejectAt, wire, store, sends,
                 timers, isAuthenticated, sendsStarted>>

NextIntent ==
  \/ NextStore
  \/ \E option \in IntentOptions : selectIntent(option)

SpecIntent == InitStore /\ [][NextIntent]_vars

(* ======================================================================= *)
(* The store with a consumer that calls sendMessage of the context itself  *)
(* ======================================================================= *)
(* what such a caller may pass: null, or any text a user can type *)
DirectContents == InputValues \cup {NonString}

(* useChat().sendMessage(content): the call rejects before anything is *)
(* dispatched, or goes ahead                                           *)
callSendMessage(content) ==
  LET message == sendMessagePreconditions(isAuthenticated, content)
  IN IF message # ""
     THEN /\ thrown' = message
          /\ UNCHANGED <<now, selectedIntent, requests, call, callsMade, lastRejectAt, wire,
                         store, sends, timers, isAuthenticated, sendsStarted>>
     ELSE /\ sendsStarted < MaxSends
          /\ sendMessage(store, content, "direct")

NextDirect ==
  \/ \E content \in DirectContents : callSendMessage(content)
  \/ handleSubmit
  \/ handleRetry
  \/ \E i \in DOMAIN sends : \E id \in ConvIds : SendSuccess(i, id)
  \/ \E i \in DOMAIN sends : \E f \in ApiFailures \cup {ApiRefused} : SendFailure(i, f)
  \/ TypingTimeout
  \/ AdvanceToTypingTimeout
  \/ \E value \in InputValues : handleInputChange(value)
  \/ createNewConversation
  \/ Logout
  \/ Login

SpecDirect == InitStore /\ [][NextDirect]_vars

(* ======================================================================= *)
(* The conversation list: loading it from the backend and showing it in    *)
(* the sidebar                                                             *)
(* ======================================================================= *)
(* lists GET /chat/conversations can answer with, in the server's order *)
ServerEntry(id, chars, status, t) ==
  [id |-> id, title |-> chars, status |-> status, updated_at |-> t, message_count |-> 2]
ServerLists ==
  LET e1 == ServerEntry("c1", <<"x", "x">>, "active", 0)
      e2 == ServerEntry("c2", <<"x", " ", "x">>, "archived", TypingDelay)
  IN {<<>>, <<e1>>, <<e1, e2>>, <<e2, e1>>}

(* the answers to GET /chat/conversations the transport hands on without a *)
(* retry: 2xx with or without a list, 404 with or without the 'coming     *)
(* soon' message                                                           *)
ConversationsAnswers ==
  {[status |-> 200, hasList |-> TRUE, list |-> l, comingSoon |-> FALSE] : l \in ServerLists}
  \cup {[status |-> 200, hasList |-> FALSE, list |-> <<>>, comingSoon |-> FALSE]}
  \cup {[status |-> 404, hasList |-> FALSE, list |-> <<>>, comingSoon |-> cs] :
          cs \in BOOLEAN}

(* the error the catch block of an operation sent through chatbotClient   *)
(* receives: issued is FALSE when the request interceptor refused the     *)
(* request, else the last attempt was answered with status                *)
catchError(issued, status) ==
  IF issued
  THEN responseErrorHandler(AxiosError(Answer(status, "ERR_BAD_RESPONSE", FALSE)),
                            maxRetries).error
  ELSE responseErrorHandler(RateLimitError, Undefined).error

(* chatbotAPI.getHealth, its request refused or answered by o *)
getHealth(issued, o) ==
  IF issued /\ o.status = 200 THEN [threw |-> FALSE, success |-> TRUE]
  ELSE [threw |-> FALSE, success |-> FALSE]

(* chatbotAPI.deleteConversation (the store's deleteConversation is another), *)
(* its request refused or answered by o                                       *)
chatbotAPI_deleteConversation(issued, o) ==
  IF issued /\ o.status = 200 THEN [threw |-> FALSE, success |-> TRUE]
  ELSE [threw |-> FALSE, success |-> FALSE]

(* faulty variant: the catch block throws what it does not recognise *)
getConversationsRethrows(issued, answer) ==
  IF issued /\ answer.status = 200
  THEN [threw |-> FALSE, success |-> TRUE, hasList |-> answer.hasList, list |-> answer.list]
  ELSE IF catchError(issued, answer.status).response.status # NoStatus /\ answer.comingSoon
  THEN [threw |-> FALSE, success |-> TRUE, hasList |-> TRUE, list |-> <<>>]
  ELSE [threw |-> TRUE, success |-> FALSE, hasList |-> FALSE, list |-> <<>>]

(* chatbotAPI.getConversations, its request refused or answered by answer: *)
(* the 'coming soon' message is looked for in the response the error still *)
(* carries                                                                 *)
getConversations(issued, answer) ==
  IF issued /\ answer.status = 200
  THEN [threw |-> FALSE, success |-> TRUE, hasList |-> answer.hasList, list |-> answer.list]
  ELSE IF catchError(issued, answer.status).response.status # NoStatus /\ answer.comingSoon
  THEN [threw |-> FALSE, success |-> TRUE, hasList |-> TRUE, list |-> <<>>]
  ELSE [threw |-> FALSE, success |-> FALSE, hasList |-> FALSE, list |-> <<>>]

(* the store's loadConversations, its request answered by answer *)
loadConversations(answer) ==
  LET r == requestInterceptor(requests, now)
      result == getConversations(r.ok, answer)
  IN /\ isAuthenticated
     /\ callsMade < MaxCalls
     /\ callsMade' = callsMade + 1
     /\ requests' = r.requests
     /\ wire' = IF r.ok THEN wire \cup {clientRequest("GET", "/chat/conversations")}
                ELSE wire
     /\ store' = IF result.success /\ result.hasList
                 THEN LOAD_CONVERSATIONS(store, result.list)
                 ELSE store
     /\ UNCHANGED <<now, selectedIntent, thrown, call, lastRejectAt, isAuthenticated, sendsStarted, sends, timers>>

(* title.toLowerCase().includes(search) on lower-case text *)
includes(chars, search) ==
  \E i \in 0..(Len(chars) - Len(search)) : SubSeq(chars, i + 1, i + Len(search)) = search

(* Array.prototype.sort with (a, b) => new Date(b.updated_at) - new Date(a.updated_at): *)
(* most recent first, entries of equal date in their order                              *)
RECURSIVE insertByUpdatedAt(_, _)
insertByUpdatedAt(entry, sorted) ==
  IF sorted = <<>> THEN <<entry>>
  ELSE IF Head(sorted).updated_at > entry.updated_at
  THEN <<Head(sorted)>> \o insertByUpdatedAt(entry, Tail(sorted))
  ELSE <<entry>> \o sorted
RECURSIVE sortByUpdatedAt(_)
sortByUpdatedAt(list) ==
  IF list = <<>> THEN <<>>
  ELSE insertByUpdatedAt(Head(list), sortByUpdatedAt(Tail(list)))

ActiveFilters == {"all", "active", "archived"}
SearchTerms == {<<>>, <<" ">>, <<"x", "x">>}
(* searchTerm.trim() *)
RECURSIVE trimStartChars(_)
trimStartChars(chars) ==
  IF chars # <<>> /\ Head(chars) = " " THEN trimStartChars(Tail(chars)) ELSE chars
RECURSIVE trimEndChars(_)
trimEndChars(chars) ==
  IF chars # <<>> /\ chars[Len(chars)] = " "
  THEN trimEndChars(SubSeq(chars, 1, Len(chars) - 1))
  ELSE chars
trimChars(chars) == trimEndChars(trimStartChars(chars))

(* Sidebar filteredConversations: shown is the list displayed, stored is   *)
(* what the array held in the store is afterwards.  filter() makes a new   *)
(* array; without a filter the array sorted in place is the store's own    *)
filteredConversations(conversations, activeFilter, searchTerm) ==
  LET byStatus == IF activeFilter = "all" THEN conversations
                  ELSE SelectSeq(conversations, LAMBDA conv : conv.status = activeFilter)
      searched == trimChars(searchTerm) # <<>>
      byTitle == IF searched
                 THEN SelectSeq(byStatus, LAMBDA conv : includes(conv.title, searchTerm))
                 ELSE byStatus
      copied == activeFilter # "all" \/ searched
  IN [shown |-> sortByUpdatedAt(byTitle),
      stored |-> IF copied THEN conversations ELSE sortByUpdatedAt(conversations)]

(* the sidebar renders with the filter and search term it holds *)
renderSidebar(activeFilter, searchTerm) ==
  /\ store' = [store EXCEPT !.conversations =
                 filteredConversations(@, activeFilter, searchTerm).stored]
  /\ UNCHANGED <<now, selectedIntent, thrown, requests, call, callsMade, lastRejectAt, wire, isAuthenticated,
                 sendsStarted, sends, timers>>

NextSidebar ==
  \/ \E answer \in ConversationsAnswers : loadConversations(answer)
  \/ \E f \in ActiveFilters : \E term \in SearchTerms : renderSidebar(f, term)
  \/ \E id \in ConvIds : switchConversation(id)
  \/ createNewConversation
  \/ \E id \in ConvIds : deleteConversation(id)
  \/ \E value \in InputValues : handleInputChange(value)
  \/ \E o \in Outcomes : checkServiceStatus(o)
  \/ updateRateLimit
  \/ Logout
  \/ Login

SpecSidebar == InitStore /\ [][NextSidebar]_vars

(* ======================================================================= *)
(* The store while the rate window ages                                    *)
(* ======================================================================= *)
NextStoreClock ==
  \/ NextStore
  \/ \E d \in TimeSteps : Advance(d)

SpecStoreClock == InitStore /\ [][NextStoreClock]_vars

(* ======================================================================= *)
(* Progress.  Every network attempt is answered (by a response, an error,  *)
(* a timeout or no answer at all), and a backoff timer that was set comes  *)
(* due and fires                                                           *)
(* ======================================================================= *)
SpecLive ==
  /\ Init /\ [][Next]_vars
  /\ WF_vars(\E o \in Outcomes : Respond(o))
  /\ WF_vars(AdvanceToTimer)
  /\ WF_vars(RetryFire)

(* chatbotAPI.sendMessage returns or throws: the call in flight or asleep *)
(* before a retry ends                                                    *)
CallEnds == (call.pc \in {"inflight", "delay"}) ~> (call.pc = "done")

(* the API call of send n returns or throws *)
Pending(n) == \E i \in DOMAIN sends : sends[i].n = n
Resolve(n) ==
  \E i \in DOMAIN sends :
    /\ sends[i].n = n
    /\ \/ \E id \in ConvIds : SendSuccess(i, id)
       \/ \E f \in ApiFailures \cup {ApiRefused} : SendFailure(i, f)

(* the store where, as CallEnds shows of the transport, the API call of *)
(* every send ends                                                      *)
SpecStoreLive ==
  /\ InitStore /\ [][NextStore]_vars
  /\ \A n \in 1..MaxSends : WF_vars(Resolve(n))

(* ======================================================================= *)
(* Properties                                                              *)
(* ======================================================================= *)
Started == callsMade > 0
Done == Started /\ call.pc = "done"
Failed == Done /\ call.result \notin {"none", "OK"}
Retryable(o) == o.status = NoStatus \/ o.status >= 500
AllStatus(r, st) == \A i \in DOMAIN r : r[i].status = st

(* C1: a retryable failure is retried at most 3 times: the retry counter    *)
(* never exceeds 3, a call makes at most 1 + 3 network attempts, and once   *)
(* the third retry has failed the error is surfaced with no further attempt *)
C1_RetryBudget ==
  /\ call.retryCount <= 3
  /\ call.attempts <= 1 + 3
  /\ Len(call.delays) <= 3
  /\ Len(call.responses) <= call.attempts
  /\ (Len(call.responses) = 1 + 3 /\ Retryable(call.responses[4]))
       => Failed /\ call.attempts = 4 /\ call.retryCount = 3
C1_Witness ==
  /\ Failed
  /\ call.attempts = 4
  /\ call.retryCount = 3
  /\ \A i \in 1..4 : Retryable(call.responses[i])
  /\ \E i \in 1..4 : call.responses[i].status = NoStatus
  /\ \E i \in 1..4 : call.responses[i].status >= 500

(* C2 as stated: after three consecutive 503 answers the caller observes a *)
(* final SERVICE_ERROR and no fourth network attempt is made               *)
C2_ThreeFailuresFinal ==
  (Len(call.responses) >= 3 /\ AllStatus(SubSeq(call.responses, 1, 3), 503))
    => Done /\ call.result = "SERVICE_ERROR" /\ call.attempts = 3

(* C2 amended: the budget is the first attempt and three retries; after     *)
(* four consecutive 503 answers the caller observes a final SERVICE_ERROR   *)
(* and no fifth attempt is made, while after only three 503 answers the     *)
(* third retry is still made                                                *)
C2_FourFailuresFinal ==
  /\ (Len(call.responses) = 4 /\ AllStatus(call.responses, 503))
       => Done /\ call.result = "SERVICE_ERROR" /\ call.attempts = 4
  /\ (Len(call.responses) = 3 /\ AllStatus(call.responses, 503))
       => /\ call.retryCount = 3
          /\ Len(call.delays) = 3
          /\ call.result # "SERVICE_ERROR"
          /\ call.pc = "inflight" => call.attempts = 4
C2_Witness ==
  /\ Len(call.responses) = 4
  /\ AllStatus(call.responses, 503)
  /\ Done
  /\ call.result = "SERVICE_ERROR"

(* C3: a 500 answer followed by a 200 answer (with a reply) gives exactly   *)
(* one successful result, exactly two network attempts and exactly one      *)
(* retry delay, the base delay of 1000 ms                                   *)
C3_RetryThenSuccess ==
  (/\ Len(call.responses) = 2
   /\ call.responses[1].status = 500
   /\ call.responses[2].status = 200
   /\ call.responses[2].reply)
    => Done /\ call.result = "OK" /\ call.attempts = 2 /\ call.delays = <<1000>>
C3_Witness ==
  /\ Len(call.responses) = 2
  /\ call.responses[1].status = 500
  /\ call.responses[2].status = 200
  /\ call.result = "OK"

(* C4: the delay before the k-th retry is 1000 * 2^(k-1), that is 1000,     *)
(* 2000 and 4000 ms; delays strictly increase along one retry chain         *)
C4_BackoffDelays ==
  /\ \A k \in DOMAIN call.delays :
       /\ k \in 1..3
       /\ call.delays[k] = <<1000, 2000, 4000>>[k]
       /\ call.delays[k] = retryDelay * Pow(backoffMultiplier, k - 1)
  /\ \A j, k \in DOMAIN call.delays : j < k => call.delays[j] < call.delays[k]
  /\ call.pc = "delay" => call.wakeAt = now + call.delays[Len(call.delays)]
                          \/ call.wakeAt <= now
C4_Witness == call.delays = <<1000, 2000, 4000>> /\ call.pc = "inflight"

(* C5: a 4xx answer (401, 404, 422, 429) is never retried: it is the last   *)
(* answer of its call, no attempt and no backoff delay follow it, and when  *)
(* it answers the first attempt the call made exactly one network attempt   *)
C5_No4xxRetry ==
  \A i \in DOMAIN call.responses :
    (call.responses[i].status >= 400 /\ call.responses[i].status < 500)
      => /\ i = Len(call.responses)
         /\ Failed
         /\ call.attempts = i
         /\ Len(call.delays) = i - 1
         /\ i = 1 => call.attempts = 1 /\ call.delays = <<>>
C5_Witness ==
  /\ Failed
  /\ Len(call.responses) = 1
  /\ call.responses[1].status \in {404, 429}
  /\ call.attempts = 1
  /\ call.delays = <<>>

(* C6: a 401 answer is never retried and raises UNAUTHORIZED at once: no    *)
(* attempt follows it, also when it answers a retry made after 5xx answers; *)
(* answering the first attempt, the call made exactly one network attempt   *)
C6_Unauthorized ==
  \A i \in DOMAIN call.responses :
    call.responses[i].status = 401
      => /\ i = Len(call.responses)
         /\ Done
         /\ call.result = "UNAUTHORIZED"
         /\ call.attempts = i
         /\ i = 1 => call.attempts = 1 /\ call.delays = <<>>
C6_Witness ==
  /\ Done
  /\ call.result = "UNAUTHORIZED"
  /\ Len(call.responses) = 3
  /\ call.responses[1].status = 500
  /\ call.responses[2].status = 503
  /\ call.responses[3].status = 401
  /\ call.attempts = 3

(* a valid call that ended without any network attempt: the request        *)
(* interceptor refused it                                                   *)
RefusedLocally == Done /\ validate(call.content) = "" /\ call.attempts = 0

(* C7: with maxPerMinute timestamps inside the trailing 60 seconds, the     *)
(* next sendMessage fails fast with code RATE_LIMITED and no network call   *)
C7_RateLimitedCode ==
  RefusedLocally => call.result = "RATE_LIMITED" /\ call.responses = <<>>

(* the step of a call that runs the request interceptor *)
RateCheckStep ==
  \/ callsMade' = callsMade + 1 /\ validate(call'.content) = ""
  \/ call.pc = "delay" /\ call'.pc # "delay"

(* C8: once 60 seconds have elapsed since the requests that filled the      *)
(* window, the rate check admits the next request and it reaches the network *)
C8_WindowElapsed ==
  [][(/\ RateCheckStep
      /\ Len(requests) >= maxPerMinute
      /\ \A i \in DOMAIN requests : now - requests[i] >= 60000)
       => /\ call'.pc = "inflight"
          /\ call'.attempts = call.attempts + 1 \/ call'.attempts = 1
          /\ requests' = <<now>>]_vars
C8_Witness ==
  /\ lastRejectAt # Undefined
  /\ now >= lastRejectAt + 60000
  /\ call.pc = "inflight"
  /\ call.attempts = 1
  /\ requests = <<now>>

(* C9: the window never holds more than maxPerMinute (100) timestamps, and  *)
(* right after a check (a request recorded or refused at this instant) no   *)
(* timestamp 60 seconds old or older is left in it                          *)
C9_WindowBound ==
  /\ Len(requests) <= 100
  /\ Len(requests) <= maxPerMinute
  /\ ((requests # <<>> /\ requests[Len(requests)] = now) \/ lastRejectAt = now)
       => \A i \in DOMAIN requests : now - requests[i] < 60000
C9_Witness ==
  /\ Len(requests) = maxPerMinute
  /\ requests[Len(requests)] = now
  /\ requests[1] < now
  /\ call.pc = "inflight"
  /\ call.attempts > 1

Long(content) == content.isString /\ StrLen(content.runs) > 4000
Blank(content) == \A i \in DOMAIN content.runs : content.runs[i].ws

(* C10 as stated: every content string longer than 4000 characters is       *)
(* rejected with MESSAGE_TOO_LONG and no network call                       *)
C10_TooLongAlways ==
  (Started /\ Long(call.content))
    => Done /\ call.result = "MESSAGE_TOO_LONG" /\ call.attempts = 0

(* C10 amended: every content string longer than 4000 characters is         *)
(* rejected client-side with no network call, with MESSAGE_TOO_LONG when it *)
(* holds a non-whitespace character and INVALID_INPUT when it is blank      *)
C10_TooLongRejected ==
  (Started /\ Long(call.content))
    => /\ Done
       /\ call.attempts = 0
       /\ call.responses = <<>>
       /\ call.result = IF Blank(call.content) THEN "INVALID_INPUT"
                         ELSE "MESSAGE_TOO_LONG"
C10_Witness ==
  /\ Started
  /\ Long(call.content)
  /\ ~Blank(call.content)
  /\ \E i \in DOMAIN call.content.runs : call.content.runs[i].ws
  /\ call.result = "MESSAGE_TOO_LONG"

(* C11: empty, non-string or whitespace-only content is rejected with       *)
(* INVALID_INPUT before any network call                                    *)
C11_InvalidInput ==
  (Started /\ (~call.content.isString \/ Blank(call.content)))
    => /\ Done
       /\ call.result = "INVALID_INPUT"
       /\ call.attempts = 0
       /\ call.responses = <<>>
C11_Witness ==
  /\ Started
  /\ call.content.isString
  /\ call.content.runs # <<>>
  /\ Blank(call.content)
  /\ StrLen(call.content.runs) <= 4000
  /\ call.result = "INVALID_INPUT"

Taxonomy ==
  {"INVALID_INPUT", "MESSAGE_TOO_LONG", "RATE_LIMITED", "VALIDATION_ERROR",
   "UNAUTHORIZED", "TIMEOUT", "NETWORK_ERROR", "SERVICE_ERROR", "UNKNOWN_ERROR"}

(* C12: every failure of sendMessage, a 2xx answer without a reply          *)
(* included, raises an error whose code is one of the nine taxonomy codes   *)
C12_TaxonomyClosed == Failed => call.result \in Taxonomy

(* the last answer the network gave to the call *)
LastAnswer == call.responses[Len(call.responses)]
(* the call ended on a network answer: no retry was scheduled after it *)
EndedOnAnswer == Len(call.delays) = Len(call.responses) - 1
(* retry-after seconds as documented: header, else body retry_after, else 60 *)
(* (a retry_after of 0 in the body counts as absent)                         *)
DocumentedRetryAfter(o) ==
  IF o.retryAfterHeader # <<>> THEN parseInt(o.retryAfterHeader)
  ELSE IF o.retryAfterBody # Undefined /\ o.retryAfterBody # 0 THEN o.retryAfterBody
  ELSE 60
(* the code and details the last answer o stands for *)
CodeOfAnswer(o) ==
  /\ o.status = 429 => /\ call.result = "RATE_LIMITED"
                       /\ call.details.retryAfter = DocumentedRetryAfter(o)
  /\ o.status = 422 => /\ call.result = "VALIDATION_ERROR"
                       /\ call.details.hasList
                       /\ call.details.list = o.detail.list
  /\ o.status >= 500 => call.result = "SERVICE_ERROR"
  /\ (o.status = NoStatus /\ o.code = "ECONNABORTED") => call.result = "TIMEOUT"
  /\ (o.status = NoStatus /\ o.code # "ECONNABORTED") => call.result = "NETWORK_ERROR"
  /\ o.status = 404 => call.result = "UNKNOWN_ERROR"

LastMessage(state) == state.messages[Len(state.messages)]
ButLast(seq) == SubSeq(seq, 1, Len(seq) - 1)
NoTemporary(msgs) == \A j \in DOMAIN msgs : ~msgs[j].isTemporary

(* C14: send-start appends one temporary user message with the temporary id *)
(* at the end of the message list, sets isSending, clears error, and leaves *)
(* activeConversation, the conversation list and inputValue unchanged       *)
C14_SendStart ==
  [][sendsStarted' = sendsStarted + 1 =>
       /\ Len(store'.messages) = Len(store.messages) + 1
       /\ ButLast(store'.messages) = store.messages
       /\ LastMessage(store').id = generateTempId(sendsStarted')
       /\ LastMessage(store').id = sends'[Len(sends')].tempId
       /\ LastMessage(store').type = "user"
       /\ LastMessage(store').isTemporary
       /\ store'.isSending
       /\ store'.error = Null
       /\ store'.activeConversation = store.activeConversation
       /\ store'.conversations = store.conversations
       /\ store'.inputValue = store.inputValue]_vars
C14_Witness ==
  /\ Len(sends) = 1
  /\ sends[1].via = "retry"
  /\ store.isSending
  /\ store.error = Null
  /\ store.lastError.type # Null
  /\ LastMessage(store).isTemporary
  /\ LastMessage(store).id = sends[1].tempId

(* C15: send-success leaves no message with the send's temporary id, puts   *)
(* the confirmed user message and then the assistant reply at the end of    *)
(* the list, sets activeConversation to the server's id and clears          *)
(* isSending and isTyping                                                   *)
C15_SendSuccess ==
  [][\A i \in DOMAIN sends : \A id \in ConvIds :
       SendSuccess(i, id) =>
         LET m == store'.messages
             k == Len(m)
         IN /\ \A j \in DOMAIN m : m[j].id # sends[i].tempId
            /\ k >= 2
            /\ m[k - 1].type = "user"
            /\ m[k - 1].id = generateMessageId(sends[i].n)
            /\ m[k - 1].content = sends[i].content
            /\ ~m[k - 1].isTemporary
            /\ m[k].type = "assistant"
            /\ store'.activeConversation = id
            /\ ~store'.isSending
            /\ ~store'.isTyping]_vars
C15_Witness ==
  /\ sends = <<>>
  /\ sendsStarted = 2
  /\ Len(store.messages) = 4
  /\ NoTemporary(store.messages)
  /\ store.messages[3].type = "user"
  /\ store.messages[4].type = "assistant"
  /\ store.activeConversation \in ConvIds
  /\ ~store.isSending

(* C16: send-failure removes the temporary message, appends nothing, keeps  *)
(* the non-temporary messages in their order, sets error to the failure     *)
(* message and clears isSending                                             *)
C16_SendFailure ==
  [][\A i \in DOMAIN sends : \A f \in ApiFailures \cup {ApiRefused} :
       SendFailure(i, f) =>
         /\ NoTemporary(store'.messages)
         /\ \A j \in DOMAIN store'.messages : store'.messages[j].id # sends[i].tempId
         /\ store'.messages = SelectSeq(store.messages, LAMBDA msg : ~msg.isTemporary)
         /\ store'.error # Null
         /\ store'.error = errorMessage(f)
         /\ store'.lastError.type = f.code
         /\ ~store'.isSending]_vars
C16_Witness ==
  /\ sends = <<>>
  /\ sendsStarted = 2
  /\ store.error = errorMessage([code |-> "TIMEOUT", details |-> NoDetails])
  /\ Len(store.messages) = 2
  /\ NoTemporary(store.messages)
  /\ ~store.isSending

(* C17: when a message sent with no active conversation is answered with a  *)
(* conversation id, activeConversation becomes that id, the conversation    *)
(* list becomes a new entry with that id followed by the entries the list   *)
(* had when the message was sent, and the message list holds exactly the    *)
(* user message and the assistant reply                                     *)
C17_NewConversation ==
  [][\A i \in DOMAIN sends : \A id \in ConvIds :
       (SendSuccess(i, id) /\ sends[i].activeConversation = Null) =>
         /\ store'.activeConversation = id
         /\ Len(store'.conversations) = Len(sends[i].conversations) + 1
         /\ Head(store'.conversations).id = id
         /\ Tail(store'.conversations) = sends[i].conversations
         /\ Len(store'.messages) = 2
         /\ store'.messages[1].type = "user"
         /\ ~store'.messages[1].isTemporary
         /\ store'.messages[2].type = "assistant"]_vars
C17_Witness ==
  /\ sends = <<>>
  /\ Len(store.conversations) = 2
  /\ store.conversations[1].id # store.conversations[2].id
  /\ store.activeConversation = store.conversations[1].id
  /\ Len(store.messages) = 2
  /\ store.messages[2].id = assistantId(2)

(* C18 as stated: isTyping is set only while a send is in flight, so with   *)
(* no send in flight the typing indicator is off                            *)
C18_TypingOnlyInFlight == store.isTyping => sends # <<>>

(* C19: at most one send is in flight: while isSending is true the send     *)
(* control is disabled, and every send in flight keeps isSending true, so   *)
(* neither submit nor retry starts a second send before the first resolved  *)
C19_OneInFlight ==
  /\ Len(sends) <= 1
  /\ sends # <<>> => store.isSending
  /\ store.isSending => ~canSendMessage(store, isAuthenticated)
C19_Witness ==
  /\ Len(sends) = 1
  /\ sends[1].via = "retry"
  /\ store.isSending
  /\ isAuthenticated
  /\ Trim(store.inputValue.runs) # <<>>
  /\ store.rateLimitInfo.remaining > 0

(* C20: switchConversation(id) sets activeConversation to id, empties the   *)
(* message list and clears error and lastError                              *)
C20_SwitchConversation ==
  [][\A id \in ConvIds :
       switchConversation(id) =>
         /\ store'.activeConversation = id
         /\ store'.messages = <<>>
         /\ store'.error = Null
         /\ store'.lastError = NoLastError]_vars
C20_Witness ==
  /\ store.activeConversation \in ConvIds
  /\ sends # <<>>
  /\ store.messages = <<>>
  /\ store.isSending

(* C21: deleting a conversation removes every entry with that id and keeps  *)
(* the other entries; deleting the active conversation sets the active      *)
(* pointer to null and empties the message list, deleting another one       *)
(* leaves both unchanged                                                    *)
C21_DeleteConversation ==
  [][\A id \in ConvIds :
       deleteConversation(id) =>
         /\ id \notin ConversationIds(store')
         /\ store'.conversations = SelectSeq(store.conversations, LAMBDA conv : conv.id # id)
         /\ IF store.activeConversation = id
            THEN store'.activeConversation = Null /\ store'.messages = <<>>
            ELSE /\ store'.activeConversation = store.activeConversation
                 /\ store'.messages = store.messages]_vars
C21_Witness ==
  /\ sends = <<>>
  /\ sendsStarted = 2
  /\ isAuthenticated
  /\ store.conversations = <<>>
  /\ store.activeConversation = Null
  /\ store.messages = <<>>
  /\ store.error # Null

(* C22 as stated: a status poll whose request fails or is answered without  *)
(* success leaves serviceStatus at 'down'                                   *)
C22_PollFailureDown ==
  [][\A o \in Outcomes :
       (checkServiceStatus(o) /\ o.status # 200) => store'.serviceStatus = "down"]_vars

(* C23 as stated: after a failed send the message list holds an entry with  *)
(* role error                                                               *)
C23_ErrorEntry ==
  [][\A i \in DOMAIN sends : \A f \in ApiFailures \cup {ApiRefused} :
       SendFailure(i, f) => hasErrors(store')]_vars

(* C25 as stated: every request the client has sent carries an X-Request-ID *)
C25_CorrelationId == \A r \in wire : r.requestId

(* C27 as stated: deleting a conversation through the store sends a DELETE  *)
(* request for it to the backend                                            *)
C27_DeleteIssued ==
  [][\A id \in ConvIds :
       deleteConversation(id) =>
         clientRequest("DELETE", "/chat/conversations/" \o id) \in wire']_vars

(* C30 as stated: a send-success that creates a new conversation leaves the *)
(* conversation list as it was just before completion, with the new entry   *)
(* prepended                                                                *)
C30_ListChangeKept ==
  [][\A i \in DOMAIN sends : \A id \in ConvIds :
       (SendSuccess(i, id) /\ sends[i].activeConversation = Null) =>
         /\ store'.conversations # <<>>
         /\ Head(store'.conversations).id = id
         /\ Tail(store'.conversations) = store.conversations]_vars

(* C24 as stated: a loadConversations that fails leaves a visible error in  *)
(* the store                                                                *)
C24_LoadFailureVisible ==
  [][\A answer \in ConversationsAnswers :
       (/\ loadConversations(answer)
        /\ ~getConversations(canMakeRequest(requests, now), answer).success)
         => store'.error # Null]_vars

(* C26 as stated: computing the list the sidebar shows, whatever the filter *)
(* and the search term, leaves the store's conversation list and its order  *)
(* unchanged                                                                *)
C26_DisplayLeavesStore ==
  [][\A f \in ActiveFilters : \A term \in SearchTerms :
       renderSidebar(f, term) => store'.conversations = store.conversations]_vars

(* C29 as stated: the snapshot the periodic refresh publishes has remaining *)
(* = maxPerMinute minus the number of requests issued in the last 60        *)
(* seconds                                                                  *)
C29_SnapshotTrailingWindow ==
  UPDATE_RATE_LIMIT(store, getRateLimitInfo(requests)).rateLimitInfo.remaining
    = maxPerMinute - Len(Prune(requests, now))

(* C28: every send that started is eventually resolved, by the one        *)
(* send-success or send-failure of that send, after which it is never     *)
(* pending again; isSending does not stay true forever                    *)
C28_SendResolved ==
  /\ \A n \in 1..MaxSends : Pending(n) ~> ~Pending(n)
  /\ store.isSending ~> ~store.isSending
  /\ [][\A n \in 1..MaxSends : Pending(n)' => (Pending(n) \/ sendsStarted' > sendsStarted)]_vars
(* witness: a second send was resolved, by a failure, and isSending is false *)
C28_Witness ==
  /\ sendsStarted = MaxSends
  /\ sends = <<>>
  /\ store.lastError.type = "SERVICE_ERROR"
  /\ ~store.isSending

(* C31 as stated: when the user has switched to another conversation while *)
(* a send was in flight, the completion of that send leaves the selected   *)
(* conversation and the message list shown for it as they are              *)
C31_SelectionKept ==
  [][\A i \in DOMAIN sends : \A id \in ConvIds :
       (/\ SendSuccess(i, id)
        /\ store.activeConversation # Null
        /\ store.activeConversation # sends[i].activeConversation)
         => /\ store'.activeConversation = store.activeConversation
            /\ store'.messages = store.messages]_vars

(* C32 as stated: while logged out the message list and the conversation *)
(* list are empty and no conversation is active                           *)
C32_EmptyWhileLoggedOut ==
  ~isAuthenticated => /\ store.messages = <<>>
                      /\ store.conversations = <<>>
                      /\ store.activeConversation = Null

(* C33: with no send in flight isSending is false and no message is       *)
(* temporary; with a send in flight isSending is true                     *)
C33_SendingIffInFlight ==
  /\ sends = <<>> => ~store.isSending /\ NoTemporary(store.messages)
  /\ sends # <<>> => store.isSending
(* witness: both sends are over, the second by a failure that followed a *)
(* success; the list shows messages, none of them temporary               *)
C33_Witness ==
  /\ sends = <<>>
  /\ sendsStarted = MaxSends
  /\ store.error # Null
  /\ store.messages # <<>>
  /\ ~store.isSending

(* the step in which a request goes out to the network *)
AttemptMade == call.pc # "inflight" /\ call'.pc = "inflight"
(* the step in which a backoff timer fires and finds the window exhausted *)
RetryRefused == call.pc = "delay" /\ call'.pc # "delay" /\ ~canMakeRequest(requests, now)

(* C34: every network attempt, first or retry, has passed the rate check  *)
(* and recorded exactly one timestamp; a retry that finds the window      *)
(* exhausted makes no network call and ends the call with an error        *)
C34_AttemptsRateChecked ==
  [][/\ AttemptMade => /\ canMakeRequest(requests, now)
                       /\ requests' = Append(Prune(requests, now), now)
     /\ RetryRefused => /\ call'.pc = "done"
                        /\ call'.result \notin {"none", "OK"}
                        /\ call'.attempts = call.attempts
                        /\ call'.responses = call.responses
                        /\ requests' = Prune(requests, now)]_vars
(* witness: two attempts filled the window and the second retry was refused *)
C34_Witness ==
  /\ Done
  /\ call.attempts = 2
  /\ Len(call.delays) = 2
  /\ Len(requests) = maxPerMinute
  /\ lastRejectAt = now

(* C35: a sendMessage call that validation or the local rate check rejects *)
(* leaves the rate window as it was                                        *)
C35_RejectedLeavesWindow ==
  [][(callsMade' = callsMade + 1 /\ call'.pc = "done" /\ call'.attempts = 0)
       => requests' = requests]_vars
(* witness: the second call was refused by the rate check, the window full *)
C35_Witness ==
  /\ RefusedLocally
  /\ callsMade = MaxCalls
  /\ lastRejectAt = now
  /\ Len(requests) = maxPerMinute

(* C38 as stated: the payload of every send in flight carries an intent  *)
(* that is one of general, coding, translation                           *)
C38_IntentInTaxonomy ==
  \A i \in DOMAIN sends :
    sends[i].early = "" =>
      sends[i].intent \in {CHAT_INTENTS.GENERAL, CHAT_INTENTS.CODING, CHAT_INTENTS.TRANSLATION}

(* C36: send-failure leaves inputValue, activeConversation and the        *)
(* conversation list as they are, and the retry control resends that      *)
(* input to that conversation; send-success empties inputValue            *)
C36_FailureKeepsInput ==
  [][/\ \A i \in DOMAIN sends : \A f \in ApiFailures \cup {ApiRefused} :
          SendFailure(i, f) => /\ store'.inputValue = store.inputValue
                               /\ store'.activeConversation = store.activeConversation
                               /\ store'.conversations = store.conversations
     /\ handleRetry => /\ sends'[Len(sends')].content = Str(Trim(store.inputValue.runs))
                       /\ sends'[Len(sends')].activeConversation = store.activeConversation
     /\ \A i \in DOMAIN sends : \A id \in ConvIds :
          SendSuccess(i, id) => store'.inputValue = Str(<<>>)]_vars
(* witness: a send in a conversation has failed; the input is still in  *)
(* the box and the retry control is enabled                              *)
C36_Witness ==
  /\ sends = <<>>
  /\ sendsStarted = MaxSends
  /\ store.error # Null
  /\ store.activeConversation # Null
  /\ store.conversations # <<>>
  /\ Trim(store.inputValue.runs) # <<>>
  /\ canSendMessage(store, isAuthenticated)

(* C37: the store's sendMessage called while unauthenticated, or with null, *)
(* empty or whitespace-only content, rejects; nothing is dispatched and no  *)
(* request is made                                                          *)
C37_PreconditionsReject ==
  [][\A content \in DirectContents :
       (/\ callSendMessage(content)
        /\ \/ ~isAuthenticated
           \/ ~content.isString
           \/ Trim(content.runs) = <<>>)
         => /\ thrown' # ""
            /\ UNCHANGED <<store, sends, timers, sendsStarted, requests, wire>>]_vars
(* witness: after a send and a logout, a call was rejected for want of *)
(* authentication                                                      *)
C37_Witness ==
  /\ thrown = "Authentication required"
  /\ ~isAuthenticated
  /\ sendsStarted > 0
  /\ Trim(store.inputValue.runs) # <<>>

(* the answers an auxiliary operation can get: those of ConversationsAnswers *)
(* and every error status, or no answer, with or without a message that      *)
(* says 'coming soon' in the body                                            *)
AuxiliaryAnswers ==
  ConversationsAnswers
  \cup {[status |-> st, hasList |-> FALSE, list |-> <<>>, comingSoon |-> cs] :
          st \in ErrStatuses, cs \in BOOLEAN}
  \cup {[status |-> NoStatus, hasList |-> FALSE, list |-> <<>>, comingSoon |-> FALSE]}

====
